---- MODULE Spec2Model ----
(***************************************************************************)
(* TelegramInfoBot (src/bot.py): the handlers start, help_command,         *)
(* myid_command and handle_forwarded, with the helpers format_user_info,   *)
(* format_chat_info and estimate_account_age.                              *)
(*                                                                         *)
(* Text is a sequence of tokens.  A literal run of a format string is one  *)
(* token (emoji and box-drawing glyphs are written in ASCII); every value  *)
(* interpolated into a format string is a run of one-character tokens, so  *)
(* that "the reply contains the identifier" is a statement about the       *)
(* characters the formatter wrote.                                         *)
(*                                                                         *)
(* A Python int is a sign and a magnitude of base-2^16 limbs, most         *)
(* significant first: identifiers carry more than 31 bits.                 *)
(***************************************************************************)
EXTENDS Integers, Sequences, FiniteSets, TLC

VARIABLES
    tasks,      \* handler invocations (coroutines) the runtime has started
    now,        \* the system clock, [days, secs] since the epoch
    time_t,     \* width of the platform's C time_t (32 or 64)
    age_in,     \* argument of a direct call of estimate_account_age
    age_out     \* outcome of that call

vars == <<tasks, now, time_t, age_in, age_out>>

---------------------------------------------------------------------------
(* Python values *)

None == [t |-> "None"]
Str(chars) == [t |-> "str", s |-> chars]
PyInt(neg, mag) == [t |-> "int", neg |-> neg, mag |-> mag]

\* bool(v), as the conditions of if, elif and the conditional expressions take it
Truthy(v) ==
    CASE v.t = "None" -> FALSE
      [] v.t = "str"  -> v.s # <<>>
      [] v.t = "int"  -> v.mag # <<>>
      [] OTHER        -> TRUE

Limb == 2^16

RECURSIVE Strip(_)
Strip(mag) == IF mag # <<>> /\ Head(mag) = 0 THEN Strip(Tail(mag)) ELSE mag

\* mag \div d and mag % d for a small d, by long division
RECURSIVE LongDiv(_, _, _)
LongDiv(mag, d, rem) ==
    IF mag = <<>> THEN [q |-> <<>>, r |-> rem]
    ELSE LET cur  == rem * Limb + Head(mag)
             rest == LongDiv(Tail(mag), d, cur % d)
         IN  [q |-> <<cur \div d>> \o rest.q, r |-> rest.r]

FromInt(n) ==
    IF n = 0 THEN PyInt(FALSE, <<>>)
    ELSE PyInt(n < 0, Strip(<<(IF n < 0 THEN -n ELSE n) \div Limb,
                            (IF n < 0 THEN -n ELSE n) % Limb>>))

DigitChars == <<"0", "1", "2", "3", "4", "5", "6", "7", "8", "9">>

RECURSIVE Digits(_)
Digits(mag) ==
    IF mag = <<>> THEN <<>>
    ELSE LET dm == LongDiv(mag, 10, 0)
         IN  Digits(Strip(dm.q)) \o <<DigitChars[dm.r + 1]>>

\* str(n) of an int
IntStr(v) ==
    IF v.mag = <<>> THEN <<"0">>
    ELSE (IF v.neg THEN <<"-">> ELSE <<>>) \o Digits(v.mag)

\* what "{v}" writes in an f-string: str(v)
Fmt(v) ==
    CASE v.t = "None" -> <<"N", "o", "n", "e">>
      [] v.t = "str"  -> v.s
      [] v.t = "int"  -> IntStr(v)

LowerCase == <<"a", "b", "c", "d", "e", "f", "g", "h", "i", "j", "k", "l", "m",
               "n", "o", "p", "q", "r", "s", "t", "u", "v", "w", "x", "y", "z">>
UpperCase == <<"A", "B", "C", "D", "E", "F", "G", "H", "I", "J", "K", "L", "M",
               "N", "O", "P", "Q", "R", "S", "T", "U", "V", "W", "X", "Y", "Z">>

Upper(c) == IF \E i \in 1..26 : LowerCase[i] = c
            THEN UpperCase[CHOOSE i \in 1..26 : LowerCase[i] = c] ELSE c
Lower(c) == IF \E i \in 1..26 : UpperCase[i] = c
            THEN LowerCase[CHOOSE i \in 1..26 : UpperCase[i] = c] ELSE c

\* the tag written as it is
capitalize_AsIs(s) == s

\* str.capitalize(): first character upper-cased, the rest lower-cased
capitalize(s) ==
    [i \in 1..Len(s) |-> IF i = 1 THEN Upper(s[i]) ELSE Lower(s[i])]

\* The outcome of evaluating an expression: the exception it raised ("none"
\* when it returned), the text it returned, what it logged on the way and the
\* readings of the system clock it took.
Ok(v, logs, reads) == [exc |-> "none", val |-> v, logs |-> logs, reads |-> reads]
Raise(e) == [exc |-> e, val |-> <<>>, logs |-> <<>>, reads |-> <<>>]

\* except Exception: every exception modelled here derives from Exception
IsException(e) == e \in {"TypeError", "AttributeError", "OverflowError"}

---------------------------------------------------------------------------
(* estimate_account_age *)

\* (user_id >> 32) & 0xFFFFFFFF, as the two 16-bit limbs [hi, lo] of the
\* result.  For a negative int Python shifts and masks the two's complement:
\* floor(-m / 2^32) mod 2^32.
ShiftMask(user_id) ==
    LET mag   == user_id.mag
        n     == Len(mag)
        limb(i) == IF i >= 1 THEN mag[i] ELSE 0
        hi    == limb(n - 3)
        lo    == limb(n - 2)
        lowzero == limb(n - 1) = 0 /\ limb(n) = 0
    IN  IF ~user_id.neg THEN [hi |-> hi, lo |-> lo]
        ELSE IF ~lowzero THEN [hi |-> Limb - 1 - hi, lo |-> Limb - 1 - lo]
        ELSE IF lo # 0 THEN [hi |-> Limb - 1 - hi, lo |-> Limb - lo]
        ELSE IF hi # 0 THEN [hi |-> Limb - hi, lo |-> 0]
        ELSE [hi |-> 0, lo |-> 0]

\* datetime.fromtimestamp(timestamp): the date as [days, secs] since the
\* epoch (the zone is UTC), or OverflowError where the timestamp does not fit
\* the platform's time_t.  hi * 2^16 + lo = (hi * 512 + lo \div 128) * 128 +
\* lo % 128, and a day is 675 * 128 seconds.
fromtimestamp(ts) ==
    IF time_t = 32 /\ ts.hi >= Limb \div 2 THEN Raise("OverflowError")
    ELSE LET q == ts.hi * 512 + (ts.lo \div 128)
         IN  [exc |-> "none",
              val |-> [days |-> q \div 675, secs |-> (q % 675) * 128 + (ts.lo % 128)]]

\* (a - b).days of two datetimes: a timedelta keeps 0 <= seconds < 86400
DeltaDays(a, b) == a.days - b.days - (IF a.secs < b.secs THEN 1 ELSE 0)

\* lines 81-87, the body of the try
AgeBody(user_id) ==
    IF user_id.t # "int" THEN Raise("TypeError")
    ELSE LET account_date == fromtimestamp(ShiftMask(user_id))
         IN  IF account_date.exc # "none" THEN Raise(account_date.exc)
             ELSE LET days == DeltaDays(now, account_date.val)
                  IN  IF days > 365
                      THEN Ok(Fmt(FromInt(days \div 365)) \o <<" year">>
                              \o (IF days \div 365 > 1 THEN <<"s">> ELSE <<>>)
                              \o <<" old">>, <<>>, <<now>>)
                      ELSE Ok(Fmt(FromInt(days \div 30)) \o <<" month">>
                              \o (IF days \div 30 > 1 THEN <<"s">> ELSE <<>>)
                              \o <<" old">>, <<>>, <<now>>)

\* except TypeError in place of except Exception
estimate_account_age_TypeErrorOnly(user_id) ==
    LET r == AgeBody(user_id)
    IN  IF r.exc = "TypeError" THEN Ok(<<"unknown age">>, <<"WARNING">>, <<>>) ELSE r

\* a count of the calls so far, kept on the class, written into the age
estimate_account_age_Counted(user_id) ==
    LET r == AgeBody(user_id)
        n == Cardinality({t \in DOMAIN tasks : tasks[t].pc # "idle"})
    IN  IF IsException(r.exc) THEN Ok(<<"unknown age">>, <<"WARNING">>, <<>>)
        ELSE Ok(r.val \o <<" #">> \o Fmt(FromInt(n)), r.logs, r.reads)

\* lines 78-90
estimate_account_age(user_id) ==
    LET r == AgeBody(user_id)
    IN  IF IsException(r.exc) THEN Ok(<<"unknown age">>, <<"WARNING">>, <<>>) ELSE r

---------------------------------------------------------------------------
(* The reply texts *)

NA == <<"N", "/", "A">>

\* the handle written without the 'N/A' fallback
format_user_info_NoFallback(user) ==
    LET age == estimate_account_age(user.id)
    IN  IF age.exc # "none" THEN age
        ELSE Ok(<<"<b>User Information</b>\n", "|- ID: <code>">> \o Fmt(user.id)
                \o <<"</code>\n", "|- Is Bot: ">>
                \o (IF user.is_bot THEN <<"Yes">> ELSE <<"No">>)
                \o <<"\n", "|- First Name: ">> \o Fmt(user.first_name)
                \o <<"\n", "|- Username: ", "@">> \o Fmt(user.username)
                \o <<"\n", "|- Language: ">>
                \o (IF "language_code" \in DOMAIN user
                    THEN Fmt(user.language_code) ELSE NA)
                \o <<"\n", "|_ Account Age: ">> \o age.val \o <<"\n">>,
                age.logs, age.reads)

\* lines 94-102
format_user_info(user) ==
    LET age == estimate_account_age(user.id)
    IN  IF age.exc # "none" THEN age
        ELSE Ok(<<"<b>User Information</b>\n", "|- ID: <code>">> \o Fmt(user.id)
                \o <<"</code>\n", "|- Is Bot: ">>
                \o (IF user.is_bot THEN <<"Yes">> ELSE <<"No">>)
                \o <<"\n", "|- First Name: ">> \o Fmt(user.first_name)
                \o <<"\n", "|- Username: ", "@">>
                \o (IF Truthy(user.username) THEN Fmt(user.username) ELSE NA)
                \o <<"\n", "|- Language: ">>
                \o (IF "language_code" \in DOMAIN user
                    THEN Fmt(user.language_code) ELSE NA)
                \o <<"\n", "|_ Account Age: ">> \o age.val \o <<"\n">>,
                age.logs, age.reads)

\* lines 106-112; chat.type is always a str
format_chat_info(chat) ==
    Ok(<<"<b>Chat Information</b>\n", "|- ID: <code>">> \o Fmt(chat.id)
       \o <<"</code>\n", "|- Type: ">> \o capitalize(chat.type.s)
       \o <<"\n", "|- Title: ">> \o Fmt(chat.title)
       \o <<"\n", "|_ Username: ", "@">>
       \o (IF Truthy(chat.username) THEN Fmt(chat.username) ELSE NA)
       \o <<"\n">>,
       <<>>, <<>>)

\* n in decimal, zero-padded to w digits
RECURSIVE Pad(_, _)
Pad(n, w) == IF w = 0 THEN <<>> ELSE Pad(n \div 10, w - 1) \o <<DigitChars[(n % 10) + 1]>>

\* '%d-%m-%Y %H:%M' in place of '%Y-%m-%d %H:%M'
strftime_DayFirst(d) ==
    IF d.t = "None" THEN Raise("AttributeError")
    ELSE Ok(Pad(d.day, 2) \o <<"-">> \o Pad(d.month, 2) \o <<"-">> \o Pad(d.year, 4)
            \o <<" ">> \o Pad(d.hour, 2) \o <<":">> \o Pad(d.minute, 2),
            <<>>, <<>>)

\* d.strftime('%Y-%m-%d %H:%M'); on None the attribute lookup fails
strftime(d) ==
    IF d.t = "None" THEN Raise("AttributeError")
    ELSE Ok(Pad(d.year, 4) \o <<"-">> \o Pad(d.month, 2) \o <<"-">> \o Pad(d.day, 2)
            \o <<" ">> \o Pad(d.hour, 2) \o <<":">> \o Pad(d.minute, 2),
            <<>>, <<>>)

\* lines 135-137
format_privacy_info(msg) ==
    LET date == strftime(msg.forward_date)
    IN  IF date.exc # "none" THEN date
        ELSE Ok(<<"<b>Forwarded from</b>: ">> \o Fmt(msg.forward_sender_name)
                \o <<"\n", "<b>Date</b>: ">> \o date.val
                \o <<"\n", "<i>More info hidden by privacy settings</i>">>,
                <<>>, <<>>)

\* lines 142-146
NotIdentifiedText ==
    <<"<b>Couldn't identify sender</b>\n\n", "Possible reasons:\n",
      "1. Not a proper forwarded message\n",
      "2. Extremely strict privacy settings\n",
      "3. From a secret chat">>

\* lines 152-153
BotErrorText == <<"<b>Bot error occurred</b>\n", "Please check server logs">>

\* lines 69-73
myid_text(user) ==
    <<"<b>Your Telegram ID</b>\n", "|- ID: <code>">> \o Fmt(user.id)
    \o <<"</code>\n", "|- First Name: ">> \o Fmt(user.first_name)
    \o <<"\n", "|- Username: ", "@">>
    \o (IF Truthy(user.username) THEN Fmt(user.username) ELSE NA)
    \o <<"\n", "|_ Language: ">>
    \o (IF Truthy(user.language_code) THEN Fmt(user.language_code) ELSE NA)

\* lines 43-48
start_text(user) ==
    <<"Hello ">> \o Fmt(user.first_name)
    \o <<"!\n\n", "I can show information about forwarded messages.\n\n",
         "Try these commands:\n", "/myid - Show your Telegram ID\n",
         "/help - Show help information\n\n",
         "Just forward me any message to see info about the sender!">>

\* lines 55-61
HelpText ==
    <<"<b>Bot Help</b>\n\n", "<b>Commands:</b>\n",
      "/myid - Show your Telegram ID\n", "/help - This message\n\n",
      "<b>Forwarding:</b>\n", "* Forward any message to see sender info\n",
      "* Some info may be hidden due to privacy settings">>

---------------------------------------------------------------------------
(* The objects the runtime hands to the handlers *)

\* 123456789, with the handle alice
Alice ==
    [t |-> "User", id |-> PyInt(FALSE, <<1883, 52501>>), is_bot |-> FALSE,
     first_name |-> Str(<<"A", "l", "i", "c", "e">>),
     username |-> Str(<<"a", "l", "i", "c", "e">>),
     language_code |-> Str(<<"e", "n">>)]

\* 7591861501820928777: the high 32 bits are 2026-01-05 13:00 UTC; no handle
Bob ==
    [t |-> "User", id |-> PyInt(FALSE, <<26971, 46544, 0, 777>>), is_bot |-> TRUE,
     first_name |-> Str(<<"B", "o", "b">>), username |-> None,
     language_code |-> None]

\* 9558612926005248777: the high 32 bits are beyond 2^31; an empty handle
Dave ==
    [t |-> "User", id |-> PyInt(FALSE, <<33959, 976, 0, 777>>), is_bot |-> FALSE,
     first_name |-> Str(<<"D", "a", "v", "e">>), username |-> Str(<<>>),
     language_code |-> None]

Users == {Alice, Bob, Dave}

\* -1001234567890
Channel ==
    [t |-> "Chat", id |-> PyInt(TRUE, <<233, 7739, 4818>>),
     type |-> Str(<<"c", "h", "a", "n", "n", "e", "l">>),
     title |-> Str(<<"N", "e", "w", "s">>),
     username |-> Str(<<"n", "e", "w", "s">>)]

\* -987654321, without a handle
Group ==
    [t |-> "Chat", id |-> PyInt(TRUE, <<15070, 26801>>),
     type |-> Str(<<"s", "u", "p", "e", "r", "g", "r", "o", "u", "p">>),
     title |-> Str(<<"D", "e", "v">>), username |-> None]

Chats == {Channel, Group}

SenderNames == {Str(<<"E", "v", "e">>)}

ForwardDates ==
    {[t |-> "datetime", year |-> 2024, month |-> 3, day |-> 7, hour |-> 9, minute |-> 5]}

\* a message sender wrote to the bot in their private chat
Message(sender, from, chat, name, date) ==
    [t |-> "Message", message_id |-> FromInt(41), chat_id |-> sender.id,
     forward_from |-> from, forward_from_chat |-> chat,
     forward_sender_name |-> name, forward_date |-> date]

\* an update that carries no message and no user: a channel post
ChannelPost == [message |-> None, effective_user |-> None]

\* what the command handlers are called with (registered at lines 34-36)
CommandUpdates ==
    {[message |-> Message(u, None, None, None, None), effective_user |-> u] : u \in Users}
    \cup {ChannelPost}

\* The forwarded messages: every combination of present and absent forward
\* fields and dates over Alice, Channel and the sender name, and each other
\* user and chat as the only origin.
ForwardMessages ==
    {Message(Alice, f, c, n, d) :
        f \in {Alice, None}, c \in {Channel, None},
        n \in SenderNames \cup {None}, d \in ForwardDates \cup {None}}
    \cup {Message(Alice, f, None, None, d) : f \in Users, d \in ForwardDates \cup {None}}
    \cup {Message(Alice, None, c, None, d) : c \in Chats, d \in ForwardDates \cup {None}}

\* what handle_forwarded is called with (registered at line 37)
ForwardUpdates ==
    {[message |-> m, effective_user |-> Alice] : m \in ForwardMessages}
    \cup {ChannelPost}

\* what estimate_account_age may be called with
Identifiers ==
    {u.id : u \in Users} \cup {c.id : c \in Chats}
    \cup {FromInt(0), FromInt(-1), PyInt(FALSE, <<1, 0, 0>>), PyInt(TRUE, <<5, 0, 7>>),
          PyInt(FALSE, <<Limb \div 2, 0, 0, 0>>), PyInt(FALSE, <<1, 26971, 46544, 0, 0>>),
          None, Str(<<"4", "2">>)}

---------------------------------------------------------------------------
(* The handlers *)

MaxTicks == 1

\* The handler invocations of a run; no claim relates more than two.
Tasks == {1, 2}

\* 2026-11-01 12:00 UTC
Clock0 == [days |-> 20758, secs |-> 43200]

\* msg.reply_text(text, parse_mode="HTML"): a message to the chat of msg
Reply(msg, text) == [chat_id |-> msg.chat_id, text |-> text, parse_mode |-> "HTML"]

Task(handler, update, pc, branch, replies, logs, exc, reads) ==
    [handler |-> handler, update |-> update, pc |-> pc, branch |-> branch,
     replies |-> replies, logs |-> logs, exc |-> exc, reads |-> reads]

\* a slot the runtime has not used yet
Idle == Task("idle", ChannelPost, "idle", "none", <<>>, <<>>, "none", <<>>)

\* estimate_account_age has not been called directly
NotCalled == [exc |-> "not called", val |-> <<>>, logs |-> <<>>, reads |-> <<>>]

\* the runtime starts the invocations in the order of their numbers
Free(t) == tasks[t].pc = "idle" /\ \A o \in Tasks : o < t => tasks[o].pc # "idle"

\* lines 120-148: which arm of the if/elif chain runs
SelectBranch_ChatFirst(msg) ==
    IF Truthy(msg.forward_from_chat) THEN "chat"
    ELSE IF Truthy(msg.forward_from) THEN "user"
    ELSE IF Truthy(msg.forward_sender_name) THEN "privacy"
    ELSE "unknown"

SelectBranch(msg) ==
    IF Truthy(msg.forward_from) THEN "user"
    ELSE IF Truthy(msg.forward_from_chat) THEN "chat"
    ELSE IF Truthy(msg.forward_sender_name) THEN "privacy"
    ELSE "unknown"

\* the last arm formats the date of the forward into its text
BranchText_DatedUnknown(msg, branch) ==
    CASE branch = "user"    -> format_user_info(msg.forward_from)
      [] branch = "chat"    -> format_chat_info(msg.forward_from_chat)
      [] branch = "privacy" -> format_privacy_info(msg)
      [] branch = "unknown" ->
            LET date == strftime(msg.forward_date)
            IN  IF date.exc # "none" THEN date
                ELSE Ok(NotIdentifiedText \o <<"\n">> \o date.val, <<>>, <<>>)

\* the text the arm builds for reply_text, or the exception building it raises
BranchText(msg, branch) ==
    CASE branch = "user"    -> format_user_info(msg.forward_from)
      [] branch = "chat"    -> format_chat_info(msg.forward_from_chat)
      [] branch = "privacy" -> format_privacy_info(msg)
      [] branch = "unknown" -> Ok(NotIdentifiedText, <<>>, <<>>)

\* the error reply sent under finally in place of except
RunForwarded_Finally(update) ==
    LET msg == update.message
    IN  IF msg.t = "None"
        THEN Task("forwarded", update, "raised", "none", <<>>, <<>>, "AttributeError", <<>>)
        ELSE LET branch == SelectBranch(msg)
                 r      == BranchText(msg, branch)
             IN  IF IsException(r.exc)
                 THEN Task("forwarded", update, "awaiting", branch,
                           <<Reply(msg, BotErrorText)>>,
                           <<"INFO">> \o r.logs \o <<"ERROR">>, "none", r.reads)
                 ELSE Task("forwarded", update, "awaiting", branch,
                           <<Reply(msg, r.val), Reply(msg, BotErrorText)>>,
                           <<"INFO">> \o r.logs, "none", r.reads)

\* lines 116-155, up to the await of reply_text
RunForwarded(update) ==
    LET msg == update.message
    IN  IF msg.t = "None"
        THEN \* line 117 reads msg.message_id outside the try
             Task("forwarded", update, "raised", "none", <<>>, <<>>, "AttributeError", <<>>)
        ELSE LET branch == SelectBranch(msg)
                 r      == BranchText(msg, branch)
             IN  IF IsException(r.exc)
                 THEN Task("forwarded", update, "awaiting", branch,
                           <<Reply(msg, BotErrorText)>>,
                           <<"INFO">> \o r.logs \o <<"ERROR">>, "none", r.reads)
                 ELSE Task("forwarded", update, "awaiting", branch,
                           <<Reply(msg, r.val)>>,
                           <<"INFO">> \o r.logs, "none", r.reads)

handle_forwarded(t, update) ==
    /\ Free(t)
    /\ tasks' = [tasks EXCEPT ![t] = RunForwarded(update)]
    /\ UNCHANGED <<now, time_t, age_in, age_out>>

\* the user kept in an attribute of the bot, which an invocation still
\* awaiting its reply has set
RunMyId_SharedUser(update) ==
    LET held == {t \in Tasks : tasks[t].handler = "myid" /\ tasks[t].pc = "awaiting"}
        user == IF held = {} THEN update.effective_user
                ELSE tasks[CHOOSE t \in held : TRUE].update.effective_user
    IN  IF update.message.t = "None" \/ update.effective_user.t = "None"
        THEN Task("myid", update, "raised", "none", <<>>, <<>>, "AttributeError", <<>>)
        ELSE Task("myid", update, "awaiting", "none",
                  <<Reply(update.message, myid_text(user))>>, <<>>, "none", <<>>)

\* lines 67-75, up to the await of reply_text
RunMyId(update) ==
    IF update.message.t = "None" \/ update.effective_user.t = "None"
    THEN Task("myid", update, "raised", "none", <<>>, <<>>, "AttributeError", <<>>)
    ELSE Task("myid", update, "awaiting", "none",
              <<Reply(update.message, myid_text(update.effective_user))>>,
              <<>>, "none", <<>>)

myid_command(t, update) ==
    /\ Free(t)
    /\ tasks' = [tasks EXCEPT ![t] = RunMyId(update)]
    /\ UNCHANGED <<now, time_t, age_in, age_out>>

\* lines 41-50
start(t, update) ==
    /\ Free(t)
    /\ tasks' = [tasks EXCEPT ![t] =
          IF update.message.t = "None" \/ update.effective_user.t = "None"
          THEN Task("start", update, "raised", "none", <<>>, <<>>, "AttributeError", <<>>)
          ELSE Task("start", update, "awaiting", "none",
                    <<Reply(update.message, start_text(update.effective_user))>>,
                    <<>>, "none", <<>>)]
    /\ UNCHANGED <<now, time_t, age_in, age_out>>

\* lines 54-63
help_command(t, update) ==
    /\ Free(t)
    /\ tasks' = [tasks EXCEPT ![t] =
          IF update.message.t = "None"
          THEN Task("help", update, "raised", "none", <<>>, <<>>, "AttributeError", <<>>)
          ELSE Task("help", update, "awaiting", "none",
                    <<Reply(update.message, HelpText)>>, <<>>, "none", <<>>)]
    /\ UNCHANGED <<now, time_t, age_in, age_out>>

\* the awaited reply_text completes and the handler returns
Resume(t) ==
    /\ tasks[t].pc = "awaiting"
    /\ tasks' = [tasks EXCEPT ![t].pc = "returned"]
    /\ UNCHANGED <<now, time_t, age_in, age_out>>

\* time passes
Tick ==
    /\ now.days < Clock0.days + 200 * MaxTicks
    /\ now' = [now EXCEPT !.days = @ + 200]
    /\ UNCHANGED <<tasks, time_t, age_in, age_out>>

Init ==
    /\ tasks = [t \in Tasks |-> Idle]
    /\ now = Clock0
    /\ time_t \in {32, 64}
    /\ age_in = None
    /\ age_out = NotCalled

Next ==
    \/ \E t \in Tasks, u \in CommandUpdates : start(t, u)
    \/ \E t \in Tasks, u \in CommandUpdates : help_command(t, u)
    \/ \E t \in Tasks, u \in CommandUpdates : myid_command(t, u)
    \/ \E t \in Tasks, u \in ForwardUpdates : handle_forwarded(t, u)
    \/ \E t \in Tasks : Resume(t)
    \/ Tick

Spec == Init /\ [][Next]_vars

\* a direct call of the static method
CallEstimate ==
    /\ age_out.exc = "not called"
    /\ age_out' = estimate_account_age(age_in)
    /\ UNCHANGED <<tasks, now, time_t, age_in>>

InitAge ==
    /\ tasks = [t \in Tasks |-> Idle]
    /\ now = Clock0
    /\ time_t \in {32, 64}
    /\ age_in \in Identifiers
    /\ age_out = NotCalled

NextAge == CallEstimate \/ Tick

SpecAge == InitAge /\ [][NextAge]_vars

---------------------------------------------------------------------------
(* Reading a reply back *)

\* mag * m + carry for small m and carry
RECURSIVE MulAdd(_, _, _)
MulAdd(mag, m, carry) ==
    IF mag = <<>> THEN (IF carry = 0 THEN <<>> ELSE <<carry>>)
    ELSE LET n   == Len(mag)
             cur == mag[n] * m + carry
         IN  MulAdd(SubSeq(mag, 1, n - 1), m, cur \div Limb) \o <<cur % Limb>>

IsDigits(chars) ==
    chars # <<>> /\ \A i \in 1..Len(chars) : \E d \in 1..10 : DigitChars[d] = chars[i]

DigitVal(c) == (CHOOSE d \in 1..10 : DigitChars[d] = c) - 1

RECURSIVE DecMag(_)
DecMag(chars) ==
    IF chars = <<>> THEN <<>>
    ELSE MulAdd(DecMag(SubSeq(chars, 1, Len(chars) - 1)), 10, DigitVal(chars[Len(chars)]))

RECURSIVE DecVal(_)
DecVal(chars) ==
    IF chars = <<>> THEN 0
    ELSE DecVal(SubSeq(chars, 1, Len(chars) - 1)) * 10 + DigitVal(chars[Len(chars)])

\* the decimal numeral chars denotes the int v
Denotes(chars, v) ==
    LET neg  == chars # <<>> /\ Head(chars) = "-"
        body == IF neg THEN Tail(chars) ELSE chars
    IN  /\ IsDigits(body)
        /\ v.t = "int"
        /\ DecMag(body) = v.mag
        /\ (v.mag # <<>> => neg = v.neg)

IndexOf(text, tok) ==
    IF \E i \in 1..Len(text) : text[i] = tok
    THEN CHOOSE i \in 1..Len(text) : text[i] = tok /\ \A j \in 1..(i - 1) : text[j] # tok
    ELSE 0

\* the tokens between the first label and the next end; <<"?">> without them
Field(text, label, end) ==
    LET i    == IndexOf(text, label)
        rest == SubSeq(text, i + 1, Len(text))
        j    == IndexOf(rest, end)
    IN  IF i = 0 \/ j = 0 THEN <<"?">> ELSE SubSeq(rest, 1, j - 1)

Contains(text, sub) ==
    \E i \in 0..(Len(text) - Len(sub)) : SubSeq(text, i + 1, i + Len(sub)) = sub

\* the field holds a value: it is neither absent nor an empty string
Populated(v) == v.t # "None" /\ (v.t = "str" => v.s # <<>>)

\* which reply a text is, by its heading
ReplyKind(text) ==
    CASE Head(text) = "<b>User Information</b>\n"        -> "user"
      [] Head(text) = "<b>Chat Information</b>\n"        -> "chat"
      [] Head(text) = "<b>Forwarded from</b>: "          -> "privacy"
      [] Head(text) = "<b>Couldn't identify sender</b>\n\n" -> "unknown"
      [] Head(text) = "<b>Bot error occurred</b>\n"      -> "error"
      [] OTHER -> "other"

\* invocation t of handle_forwarded got a message and ran up to its reply
Handled(t) ==
    /\ tasks[t].handler = "forwarded"
    /\ tasks[t].update.message.t = "Message"
    /\ tasks[t].pc \in {"awaiting", "returned"}

Msg(t) == tasks[t].update.message
ReplyText(t) == tasks[t].replies[1].text

OnlyUser(m) ==
    Populated(m.forward_from) /\ ~Populated(m.forward_from_chat)
    /\ ~Populated(m.forward_sender_name)
OnlyChat(m) ==
    ~Populated(m.forward_from) /\ Populated(m.forward_from_chat)
    /\ ~Populated(m.forward_sender_name)
OnlyName(m) ==
    ~Populated(m.forward_from) /\ ~Populated(m.forward_from_chat)
    /\ Populated(m.forward_sender_name)
NoOrigin(m) ==
    ~Populated(m.forward_from) /\ ~Populated(m.forward_from_chat)
    /\ ~Populated(m.forward_sender_name)

---------------------------------------------------------------------------
(* The claims *)

\* C1: handle_forwarded takes exactly one of its four reply branches per
\* message, the first of forwarded-user, forwarded-chat, forwarded-sender-name
\* whose field is populated and the not-identifiable branch when none is; a
\* lower branch is never taken while a higher field is populated.  The one
\* reply is the reply of that branch (or the error reply when building it
\* failed).
C1_BranchPriority ==
    \A t \in Tasks : Handled(t) =>
        LET m == Msg(t)
            b == tasks[t].branch
        IN  /\ b \in {"user", "chat", "privacy", "unknown"}
            /\ b = "user" <=> Populated(m.forward_from)
            /\ b = "chat" <=>
                  ~Populated(m.forward_from) /\ Populated(m.forward_from_chat)
            /\ b = "privacy" <=> OnlyName(m)
            /\ b = "unknown" <=> NoOrigin(m)
            /\ Len(tasks[t].replies) = 1
            /\ ReplyKind(ReplyText(t)) \in {b, "error"}

\* a message with all three forward fields populated was answered as a user
C1_Witness ==
    \E t \in Tasks :
        /\ Handled(t)
        /\ Populated(Msg(t).forward_from)
        /\ Populated(Msg(t).forward_from_chat)
        /\ Populated(Msg(t).forward_sender_name)
        /\ ReplyKind(ReplyText(t)) = "user"

\* the reply carries the sender name, a date written as YYYY-MM-DD HH:MM and
\* the notice that more is hidden; with a date d given, the date is d
PrivacyReply(text, name) ==
    LET date == Field(text, "<b>Date</b>: ", "\n")
    IN  /\ ReplyKind(text) = "privacy"
        /\ Field(text, "<b>Forwarded from</b>: ", "\n") = name.s
        /\ Len(date) = 16
        /\ IsDigits(SubSeq(date, 1, 4)) /\ date[5] = "-"
        /\ IsDigits(SubSeq(date, 6, 7)) /\ date[8] = "-"
        /\ IsDigits(SubSeq(date, 9, 10)) /\ date[11] = " "
        /\ IsDigits(SubSeq(date, 12, 13)) /\ date[14] = ":"
        /\ IsDigits(SubSeq(date, 15, 16))
        /\ text[Len(text)] = "<i>More info hidden by privacy settings</i>"

ShowsDate(text, d) ==
    LET date == Field(text, "<b>Date</b>: ", "\n")
    IN  /\ DecVal(SubSeq(date, 1, 4)) = d.year
        /\ DecVal(SubSeq(date, 6, 7)) = d.month
        /\ DecVal(SubSeq(date, 9, 10)) = d.day
        /\ DecVal(SubSeq(date, 12, 13)) = d.hour
        /\ DecVal(SubSeq(date, 15, 16)) = d.minute

\* C2 as stated: for every message with only a forwarded-sender-name the reply
\* contains the name, a formatted forward date and the notice that more info is
\* hidden, whether or not the forward timestamp is populated.
C2_Original ==
    \A t \in Tasks : Handled(t) /\ OnlyName(Msg(t)) =>
        /\ PrivacyReply(ReplyText(t), Msg(t).forward_sender_name)
        /\ Populated(Msg(t).forward_date) => ShowsDate(ReplyText(t), Msg(t).forward_date)

\* C2, amended: for every message with only a forwarded-sender-name and a
\* populated forward timestamp the reply contains the name, that date as
\* YYYY-MM-DD HH:MM and the hidden-info notice; when the timestamp is absent
\* the reply is the generic bot-error reply and the failure is logged.
C2_PrivacyReply ==
    \A t \in Tasks : Handled(t) /\ OnlyName(Msg(t)) =>
        IF Populated(Msg(t).forward_date)
        THEN /\ PrivacyReply(ReplyText(t), Msg(t).forward_sender_name)
             /\ ShowsDate(ReplyText(t), Msg(t).forward_date)
             /\ tasks[t].logs = <<"INFO">>
        ELSE /\ ReplyText(t) = <<"<b>Bot error occurred</b>\n", "Please check server logs">>
             /\ tasks[t].logs = <<"INFO", "ERROR">>

\* both cases were answered: a sender-name-only message with a date and one without
C2_Witness ==
    /\ \E t \in Tasks :
          /\ Handled(t) /\ OnlyName(Msg(t)) /\ Populated(Msg(t).forward_date)
          /\ ReplyKind(ReplyText(t)) = "privacy"
    /\ \E t \in Tasks :
          /\ Handled(t) /\ OnlyName(Msg(t)) /\ ~Populated(Msg(t).forward_date)
          /\ tasks[t].pc = "returned"

\* C4: for every message with a populated forwarded-user and neither a
\* forwarded-chat nor a forwarded-sender-name, the reply is the user-info reply;
\* its ID line holds the decimal numeral of the user's identifier and its
\* Username line holds "@" and the handle, or "@N/A" when the handle is absent
\* or empty.
C4_UserReply ==
    \A t \in Tasks : Handled(t) /\ OnlyUser(Msg(t)) =>
        LET user == Msg(t).forward_from
            text == ReplyText(t)
        IN  /\ ReplyKind(text) = "user"
            /\ Denotes(Field(text, "|- ID: <code>", "</code>\n"), user.id)
            /\ Field(text, "|- Username: ", "\n") =
                  <<"@">> \o (IF Populated(user.username)
                              THEN user.username.s ELSE <<"N", "/", "A">>)

\* user-only forwards were answered for a user with a handle and for a user
\* with an empty handle
C4_Witness ==
    \E t1, t2 \in Tasks :
        /\ Handled(t1) /\ OnlyUser(Msg(t1))
        /\ Populated(Msg(t1).forward_from.username)
        /\ Handled(t2) /\ OnlyUser(Msg(t2))
        /\ Msg(t2).forward_from.username = Str(<<>>)
        /\ Contains(ReplyText(t2), <<"@", "N", "/", "A">>)

\* C5: for every message with a populated forwarded-chat only, the reply is
\* the chat-info reply (never the error reply), also for a chat without a
\* handle; its ID line holds the numeral of the chat's identifier, its Title
\* line the title and its Type line the type tag with the first letter
\* capitalized.
C5_ChatReply ==
    \A t \in Tasks : Handled(t) /\ OnlyChat(Msg(t)) =>
        LET chat == Msg(t).forward_from_chat
            text == ReplyText(t)
            tag  == chat.type.s
        IN  /\ ReplyKind(text) = "chat"
            /\ tasks[t].logs = <<"INFO">>
            /\ Denotes(Field(text, "|- ID: <code>", "</code>\n"), chat.id)
            /\ Field(text, "|- Title: ", "\n") = chat.title.s
            /\ Field(text, "|- Type: ", "\n") = <<Upper(Head(tag))>> \o Tail(tag)
            /\ Upper(Head(tag)) # Head(tag)

\* a chat without a handle was answered with the chat-info reply
C5_Witness ==
    \E t \in Tasks :
        /\ Handled(t) /\ OnlyChat(Msg(t))
        /\ Msg(t).forward_from_chat.username.t = "None"
        /\ tasks[t].pc = "returned"
        /\ ReplyKind(ReplyText(t)) = "chat"

\* C6: for every message with none of the three forward fields populated the
\* reply is exactly the fixed "Couldn't identify sender" text with its three
\* reasons, whatever the other fields of the message hold.
C6_NotIdentified ==
    \A t \in Tasks : Handled(t) /\ NoOrigin(Msg(t)) =>
        /\ Len(tasks[t].replies) = 1
        /\ ReplyText(t) =
              <<"<b>Couldn't identify sender</b>\n\n", "Possible reasons:\n",
                "1. Not a proper forwarded message\n",
                "2. Extremely strict privacy settings\n",
                "3. From a secret chat">>

\* messages without an origin were answered with and without a forward date
C6_Witness ==
    \E t1, t2 \in Tasks :
        /\ Handled(t1) /\ NoOrigin(Msg(t1)) /\ Populated(Msg(t1).forward_date)
        /\ Handled(t2) /\ NoOrigin(Msg(t2)) /\ ~Populated(Msg(t2).forward_date)
        /\ ReplyText(t1) = ReplyText(t2)

\* C7: in every interleaving of myid_command invocations, each reply goes to
\* the chat of the message of its own update and its ID line holds the
\* identifier of the user who issued that update, never another user's.
C7_OwnIdentifier ==
    \A t \in Tasks : tasks[t].handler = "myid" /\ tasks[t].replies # <<>> =>
        LET update == tasks[t].update
            id     == Field(ReplyText(t), "|- ID: <code>", "</code>\n")
        IN  /\ Len(tasks[t].replies) = 1
            /\ tasks[t].replies[1].chat_id = update.message.chat_id
            /\ Denotes(id, update.effective_user.id)
            /\ \A u \in Users : u.id # update.effective_user.id => ~Denotes(id, u.id)

\* two users' /myid invocations are in flight at once
C7_Witness ==
    \E t1, t2 \in Tasks :
        /\ tasks[t1].handler = "myid" /\ tasks[t1].pc = "awaiting"
        /\ tasks[t2].handler = "myid" /\ tasks[t2].pc = "awaiting"
        /\ tasks[t1].update.effective_user.id # tasks[t2].update.effective_user.id

\* C8: estimate_account_age never raises.  For every identifier it returns a
\* string, and it returns exactly "unknown age" whenever the shift and mask
\* fail (the identifier is no int) or the conversion of the timestamp to a date
\* fails (the timestamp does not fit the platform's time_t); otherwise it
\* returns an age in months or years.
C8_NeverRaises ==
    age_out.exc # "not called" =>
        LET arithmetic == age_in.t # "int"
            conversion == age_in.t = "int" /\ time_t = 32
                          /\ ShiftMask(age_in).hi >= 2^15
        IN  /\ age_out.exc = "none"
            /\ age_out.val # <<>>
            /\ arithmetic \/ conversion => age_out.val = <<"unknown age">>
            /\ ~(arithmetic \/ conversion) =>
                  /\ age_out.val[Len(age_out.val)] = " old"
                  /\ \E w \in {" year", " month"} : Contains(age_out.val, <<w>>)

\* a malformed identifier was answered "unknown age"
C8_Witness ==
    /\ age_in.t # "int"
    /\ age_out.exc = "none"
    /\ age_out.val = <<"unknown age">>

C3_NothingPropagates ==
    \A t \in Tasks : tasks[t].handler = "forwarded" =>
        tasks[t].exc = "none" /\ tasks[t].pc # "raised"

====
